---- MODULE Spec2Model ----
(***************************************************************************)
(* Model of the fusion engine of the VDEh catalogue enrichment pipeline:   *)
(* FusionEngine.merge_record and the pure helpers it calls                 *)
(* (src/src/fusion/fusion_engine.py, src/src/fusion/utils.py).             *)
(*                                                                         *)
(* Python strings are sequences of one-character strings.  A field value   *)
(* is one of  None, NaN, [s |-> <string>], [n |-> <integer>]  so that the  *)
(* three tests the code uses (pd.notna, truthiness, ==) can be told apart. *)
(* Floats are exact fractions [num |-> p, den |-> q].                      *)
(***************************************************************************)
EXTENDS Integers, Sequences, FiniteSets, TLC

\* ------------------------------------------------------------------------
\* Field values
\* ------------------------------------------------------------------------
None == [none |-> TRUE]
NaN == [nan |-> TRUE]
Str(s) == [s |-> s]
Num(n) == [n |-> n]

IsStr(v) == DOMAIN v = {"s"}
IsInt(v) == DOMAIN v = {"n"}

\* pd.notna(v)
notna(v) == v /= None /\ v /= NaN

\* Python truthiness of a field value: None, '' and 0 are falsy, NaN is truthy
truthy(v) ==
    IF v = None THEN FALSE
    ELSE IF v = NaN THEN TRUE
    ELSE IF IsStr(v) THEN Len(v.s) > 0
    ELSE v.n /= 0

FIELDS == <<"title", "authors", "year", "publisher", "pages", "isbn", "issn">>
FieldSet == {FIELDS[i] : i \in 1..Len(FIELDS)}

\* ------------------------------------------------------------------------
\* Characters and strings
\* ------------------------------------------------------------------------
LowerChars == <<"a","b","c","d","e","f","g","h","i","j","k","l","m",
                "n","o","p","q","r","s","t","u","v","w","x","y","z">>
UpperChars == <<"A","B","C","D","E","F","G","H","I","J","K","L","M",
                "N","O","P","Q","R","S","T","U","V","W","X","Y","Z">>
DigitChars == <<"0","1","2","3","4","5","6","7","8","9">>

IsSpace(c) == c \in {" ", "\n", "\t"}
IsDigit(c) == \E d \in 1..10 : DigitChars[d] = c
DigitVal(c) == (CHOOSE d \in 1..10 : DigitChars[d] = c) - 1

\* str.upper() / str.lower(), one character
UpperChar(c) ==
    IF \E k \in 1..26 : LowerChars[k] = c
    THEN UpperChars[CHOOSE k \in 1..26 : LowerChars[k] = c]
    ELSE c
LowerChar(c) ==
    IF \E k \in 1..26 : UpperChars[k] = c
    THEN LowerChars[CHOOSE k \in 1..26 : UpperChars[k] = c]
    ELSE c
upper(s) == [i \in 1..Len(s) |-> UpperChar(s[i])]
lower(s) == [i \in 1..Len(s) |-> LowerChar(s[i])]

\* str.strip(): drop leading and trailing whitespace
RECURSIVE lstrip(_)
lstrip(s) == IF Len(s) > 0 /\ IsSpace(s[1]) THEN lstrip(Tail(s)) ELSE s
RECURSIVE rstrip(_)
rstrip(s) ==
    IF Len(s) > 0 /\ IsSpace(s[Len(s)]) THEN rstrip(SubSeq(s, 1, Len(s) - 1)) ELSE s
strip(s) == rstrip(lstrip(s))

\* str.startswith(prefix)
startswith(s, p) == Len(s) >= Len(p) /\ SubSeq(s, 1, Len(p)) = p

\* c in s
contains(s, c) == \E i \in 1..Len(s) : s[i] = c

\* s.split(c, 1)[1]: the text after the first occurrence of c
after_first(s, c) ==
    LET i == CHOOSE k \in 1..Len(s) : s[k] = c /\ \A m \in 1..(k - 1) : s[m] /= c
    IN SubSeq(s, i + 1, Len(s))

\* str(v) for a field value
RECURSIVE digits_of(_)
digits_of(n) ==
    IF n < 10 THEN <<DigitChars[n + 1]>>
    ELSE Append(digits_of(n \div 10), DigitChars[(n % 10) + 1])
str(v) ==
    IF v = None THEN <<"N","o","n","e">>
    ELSE IF v = NaN THEN <<"n","a","n">>
    ELSE IF IsStr(v) THEN v.s
    ELSE digits_of(v.n)

\* ------------------------------------------------------------------------
\* difflib.SequenceMatcher(None, a, b).ratio()
\* ------------------------------------------------------------------------
\* length of the common run of a and b starting at a[i], b[j], inside
\* a[i..ahi], b[j..bhi]
RECURSIVE run_len(_, _, _, _, _, _)
run_len(a, b, i, j, ahi, bhi) ==
    IF i > ahi \/ j > bhi \/ a[i] /= b[j] THEN 0
    ELSE 1 + run_len(a, b, i + 1, j + 1, ahi, bhi)

SetMax(S) == CHOOSE x \in S : \A y \in S : y <= x
SetMin(S) == CHOOSE x \in S : \A y \in S : y >= x

\* find_longest_match over a[alo..ahi], b[blo..bhi] (inclusive, 1-based):
\* the longest block, earliest in a, then earliest in b; <<i, j, k>>
find_longest_match(a, alo, ahi, b, blo, bhi) ==
    LET Pos == (alo..ahi) \X (blo..bhi)
        len == [p \in Pos |-> run_len(a, b, p[1], p[2], ahi, bhi)]
        best == SetMax({len[p] : p \in Pos} \cup {0})
    IN IF best = 0 THEN <<alo, blo, 0>>
       ELSE LET Hit == {p \in Pos : len[p] = best}
                i == SetMin({p[1] : p \in Hit})
                j == SetMin({p[2] : p \in {q \in Hit : q[1] = i}})
            IN <<i, j, best>>

\* sum of the sizes of get_matching_blocks()
RECURSIVE matches(_, _, _, _, _, _)
\* the block m = <<i, j, k>> and the blocks to its left and to its right
matches_around(a, alo, ahi, b, blo, bhi, m) ==
    IF m[3] = 0 THEN 0
    ELSE m[3] + matches(a, alo, m[1] - 1, b, blo, m[2] - 1)
              + matches(a, m[1] + m[3], ahi, b, m[2] + m[3], bhi)
matches(a, alo, ahi, b, blo, bhi) ==
    IF alo > ahi \/ blo > bhi THEN 0
    ELSE matches_around(a, alo, ahi, b, blo, bhi,
                        find_longest_match(a, alo, ahi, b, blo, bhi))

\* a float as an exact fraction, and the comparisons x >= y, x < y, x <= y, x > y
Frac(p, q) == [num |-> p, den |-> q]
frac_ge(x, y) == x.num * y.den >= y.num * x.den
frac_lt(x, y) == ~frac_ge(x, y)
frac_le(x, y) == x.num * y.den <= y.num * x.den
frac_gt(x, y) == ~frac_le(x, y)

\* ratio() = 2.0 * M / T; 1.0 when both strings are empty
ratio(a, b) ==
    IF Len(a) + Len(b) = 0 THEN Frac(1, 1)
    ELSE Frac(2 * matches(a, 1, Len(a), b, 1, Len(b)), Len(a) + Len(b))

\* FusionEngine.calculate_title_similarity
calculate_title_similarity(title1, title2) ==
    IF ~truthy(title1) \/ ~truthy(title2) THEN Frac(0, 1)
    ELSE ratio(strip(lower(str(title1))), strip(lower(str(title2))))

\* ------------------------------------------------------------------------
\* utils.extract_page_number, utils.calculate_pages_match
\* ------------------------------------------------------------------------
\* the page-unit alternatives of the first pattern, lower case; "pages?" and
\* "Seiten?" match as soon as "page" / "seite" is there
PageUnits == { <<"s", ".">>, <<"p", ".">>, <<"p","a","g","e">>, <<"s","e","i","t","e">> }

\* first index >= i of s that is not whitespace (Len(s) + 1 if none)
RECURSIVE skip_ws(_, _)
skip_ws(s, i) == IF i <= Len(s) /\ IsSpace(s[i]) THEN skip_ws(s, i + 1) ELSE i

\* last index of the digit run that starts at s[i]
RECURSIVE run_end(_, _)
run_end(s, i) == IF i < Len(s) /\ IsDigit(s[i + 1]) THEN run_end(s, i + 1) ELSE i

\* int() of the digits s[i..e]
RECURSIVE int_digits(_, _, _)
int_digits(s, i, e) ==
    IF e < i THEN 0 ELSE 10 * int_digits(s, i, e - 1) + DigitVal(s[e])

\* what the three patterns accept after a digit run ending at s[e]:
\* \s* and then a page unit (pattern 1), the end of the string (pattern 2)
\* or a comma or colon (pattern 3)
unit_follows(s, e) ==
    LET j == skip_ws(s, e + 1)
    IN \E u \in PageUnits : startswith(lower(SubSeq(s, j, Len(s))), u)
end_follows(s, e) == skip_ws(s, e + 1) > Len(s)
sep_follows(s, e) ==
    LET j == skip_ws(s, e + 1) IN j <= Len(s) /\ s[j] \in {",", ":"}

\* re.findall(patterns[p - 1], s): the values of the digit runs that
\* pattern p accepts
pattern_numbers(s, p) ==
    { int_digits(s, i, run_end(s, i)) :
        i \in { k \in 1..Len(s) :
                 /\ IsDigit(s[k])
                 /\ (k = 1 \/ ~IsDigit(s[k - 1]))
                 /\ CASE p = 1 -> unit_follows(s, run_end(s, k))
                      [] p = 2 -> end_follows(s, run_end(s, k))
                      [] OTHER -> sep_follows(s, run_end(s, k)) } }

\* the numbers of the first pattern that matches at all
first_hit_numbers(s) ==
    IF pattern_numbers(s, 1) /= {} THEN pattern_numbers(s, 1)
    ELSE IF pattern_numbers(s, 2) /= {} THEN pattern_numbers(s, 2)
    ELSE pattern_numbers(s, 3)

\* extract_page_number stopping at the first pattern that matches
extract_page_number_first_hit(pages_str) ==
    IF ~notna(pages_str) \/ ~truthy(pages_str) THEN None
    ELSE LET numbers == first_hit_numbers(strip(str(pages_str)))
         IN IF numbers = {} THEN None ELSE Num(SetMax(numbers))

\* re.findall over the three patterns: every maximal digit run that one of
\* the patterns accepts contributes its value
page_numbers(s) ==
    { int_digits(s, i, run_end(s, i)) :
        i \in { k \in 1..Len(s) :
                 /\ IsDigit(s[k])
                 /\ (k = 1 \/ ~IsDigit(s[k - 1]))
                 /\ \/ unit_follows(s, run_end(s, k))
                    \/ end_follows(s, run_end(s, k))
                    \/ sep_follows(s, run_end(s, k)) } }

\* extract_page_number: None or Num(largest number found)
extract_page_number(pages_str) ==
    IF ~notna(pages_str) \/ ~truthy(pages_str) THEN None
    ELSE LET numbers == page_numbers(strip(str(pages_str)))
         IN IF numbers = {} THEN None ELSE Num(SetMax(numbers))

Abs(x) == IF x < 0 THEN -x ELSE x

\* the difference relative to the first count instead of the average
diff_percent_of_first(num1, num2) ==
    IF num1.n > 0
    THEN Frac(Abs(num1.n - num2.n), num1.n)
    ELSE Frac(1, 1)

\* default tolerance of calculate_pages_match
tolerance == Frac(1, 10)

\* calculate_pages_match: [matches, diff], diff = None or the relative
\* difference |n1 - n2| / ((n1 + n2) / 2), 1.0 when the average is 0
\* diff / avg if avg > 0 else 1.0 (line 213)
diff_percent(num1, num2) ==
    IF num1.n + num2.n > 0
    THEN Frac(2 * Abs(num1.n - num2.n), num1.n + num2.n)
    ELSE Frac(1, 1)

\* lines 206-222, on the two extracted numbers
pages_match_of(num1, num2, tol) ==
    IF num1 = None \/ num2 = None THEN [matches |-> FALSE, diff |-> None]
    ELSE [matches |-> frac_le(diff_percent(num1, num2), tol),
          diff |-> diff_percent(num1, num2)]

calculate_pages_match(pages1, pages2, tol) ==
    pages_match_of(extract_page_number(pages1), extract_page_number(pages2), tol)

\* ------------------------------------------------------------------------
\* FusionEngine.validate_dnb_match
\* ------------------------------------------------------------------------
\* defaults of validate_dnb_match
min_title_similarity == Frac(5, 10)
max_year_diff == 2
max_pages_diff == Frac(2, 10)

\* int(v) inside the try block: [ok, n]; a string converts when it is, after
\* stripping, a non-empty run of digits, anything else raises ValueError
int_of(v) ==
    IF IsInt(v) THEN [ok |-> TRUE, n |-> v.n]
    ELSE LET d == strip(str(v))
         IN IF Len(d) > 0 /\ \A i \in 1..Len(d) : IsDigit(d[i])
            THEN [ok |-> TRUE, n |-> int_digits(d, 1, Len(d))]
            ELSE [ok |-> FALSE, n |-> 0]

\* |int(y1) - int(y2)| as Num, or None when a conversion raised or a year is missing
int_difference(i1, i2) == IF i1.ok /\ i2.ok THEN Num(Abs(i1.n - i2.n)) ELSE None
year_difference_ignored(y1, y2) == None
year_difference(y1, y2) ==
    IF notna(y1) /\ notna(y2) THEN int_difference(int_of(y1), int_of(y2)) ELSE None

\* An absent variant is the Python value None; a present one maps the seven
\* field names to values.
IsRecordDict(d) == d /= None

\* Returns [raised |-> FALSE, valid, reason] or [raised |-> TRUE, exc].
\* dnb_data = None makes dnb_data.get raise AttributeError (line 201);
\* pages_diff is only bound inside "if vdeh_pages and dnb_pages" (line 229)
\* and is read at line 242 whenever both pages are not NA.
\* lines 203-245: the checks, on the values read from the two records
validate_checks(vdeh_title, dnb_title, title_sim, vdeh_year, dnb_year, year_diff, vdeh_pages, dnb_pages, pages_diff, min_sim, max_ydiff, max_pdiff) ==
    IF ~truthy(vdeh_title) \/ ~truthy(dnb_title)
    THEN [raised |-> FALSE, valid |-> TRUE,
          reason |-> [check |-> "Titel fehlt"]]
    ELSE IF frac_lt(title_sim, min_sim)
    THEN [raised |-> FALSE, valid |-> FALSE,
          reason |-> [check |-> "Titel zu unterschiedlich", similarity |-> title_sim]]
    ELSE IF year_diff /= None /\ year_diff.n > max_ydiff
    THEN [raised |-> FALSE, valid |-> FALSE,
          reason |-> [check |-> "Jahr zu weit weg", year_diff |-> year_diff.n]]
    ELSE IF truthy(vdeh_pages) /\ truthy(dnb_pages)
            /\ pages_diff /= None /\ frac_gt(pages_diff, max_pdiff)
    THEN [raised |-> FALSE, valid |-> FALSE,
          reason |-> [check |-> "Seitenzahl zu unterschiedlich", pages_diff |-> pages_diff]]
    ELSE IF notna(vdeh_pages) /\ notna(dnb_pages)
            /\ ~(truthy(vdeh_pages) /\ truthy(dnb_pages))
    THEN [raised |-> TRUE, exc |-> "UnboundLocalError"]
    ELSE [raised |-> FALSE, valid |-> TRUE,
          reason |-> [check |-> "passed",
                      similarity |-> title_sim,
                      years |-> IF notna(vdeh_year) /\ notna(dnb_year)
                                THEN <<vdeh_year, dnb_year>> ELSE <<>>,
                      pages_diff |-> IF notna(vdeh_pages) /\ notna(dnb_pages)
                                     THEN pages_diff ELSE None]]

validate_dnb_match(vdeh_data, dnb_data, min_sim, max_ydiff, max_pdiff) ==
    IF ~IsRecordDict(dnb_data) THEN [raised |-> TRUE, exc |-> "AttributeError"]
    ELSE validate_checks(
           vdeh_data["title"], dnb_data["title"],
           calculate_title_similarity(vdeh_data["title"], dnb_data["title"]),
           vdeh_data["year"], dnb_data["year"],
           year_difference(vdeh_data["year"], dnb_data["year"]),
           vdeh_data["pages"], dnb_data["pages"],
           calculate_pages_match(vdeh_data["pages"], dnb_data["pages"], tolerance).diff,
           min_sim, max_ydiff, max_pdiff)

\* ------------------------------------------------------------------------
\* FusionEngine.parse_ai_choice
\* ------------------------------------------------------------------------
CHOICES == <<"A", "B", "C", "D", "E", "F">>

\* response.split('-', 1)[1].strip() if '-' in response else ''
reason_of(text) == IF contains(text, "-") THEN strip(after_first(text, "-")) ELSE <<>>

\* letter_matches that accepts the letter before any character
letter_matches_any(r, c) == startswith(r, <<c>>)

\* r.startswith(f'{c} ') or r.startswith(f'{c}-') or r.startswith(f'{c}\n') or r == c
letter_matches(r, c) ==
    \/ startswith(r, <<c, " ">>)
    \/ startswith(r, <<c, "-">>)
    \/ startswith(r, <<c, "\n">>)
    \/ r = <<c>>

\* both_preferred that takes any 'A&...' for 'A&B'
both_preferred_any(r) == startswith(r, <<"A", "&">>)

\* r.startswith('A&B') (line 382)
both_preferred(r) == startswith(r, <<"A", "&", "B">>)

\* response: None or Str(text).  Returns [choice, reason]; a reason is a
\* string, a literal part of it being one element.
parse_ai_choice(response) ==
    IF ~truthy(response) THEN [choice |-> "KEINE", reason |-> <<"KI keine Antwort">>]
    ELSE
    LET r == upper(strip(response.s))
        reason == reason_of(response.s)
    IN IF both_preferred(r)
       THEN [choice |-> "A", reason |-> <<"Beide passend, ID bevorzugt. ">> \o reason]
       ELSE IF \E k \in 1..Len(CHOICES) : letter_matches(r, CHOICES[k])
       THEN [choice |-> CHOICES[CHOOSE k \in 1..Len(CHOICES) :
                                    /\ letter_matches(r, CHOICES[k])
                                    /\ \A m \in 1..(k - 1) : ~letter_matches(r, CHOICES[m])],
             reason |-> reason]
       ELSE IF startswith(r, <<"K","E","I","N","E">>) \/ startswith(r, <<"K","E","I","N">>)
       THEN [choice |-> "KEINE",
             reason |-> IF Len(reason) > 0 THEN reason ELSE <<"Keine Variante passt">>]
       ELSE [choice |-> "KEINE", reason |-> <<"Unklare KI-Antwort: ">> \o response.s]

\* ------------------------------------------------------------------------
\* utils.normalize_string, utils._normalize_publisher, utils.compare_fields
\* ------------------------------------------------------------------------
\* characters outside ASCII, by name
notsign == "not-sign"
endash == "en-dash"
emdash == "em-dash"
ouml == "o-umlaut"
auml == "a-umlaut"
uuml == "u-umlaut"
szlig == "sharp-s"

\* s.replace(old, new): leftmost, non-overlapping
RECURSIVE replace(_, _, _)
replace(s, old, new) ==
    IF Len(s) = 0 THEN <<>>
    ELSE IF startswith(s, old) THEN new \o replace(SubSeq(s, Len(old) + 1, Len(s)), old, new)
    ELSE <<s[1]>> \o replace(Tail(s), old, new)

\* re.sub(r'\s*[-\u2013\u2014]\s*', ' ', s)
RECURSIVE sub_dashes(_)
sub_dashes(s) ==
    IF Len(s) = 0 THEN <<>>
    ELSE LET j == skip_ws(s, 1)
         IN IF j <= Len(s) /\ s[j] \in {"-", endash, emdash}
            THEN <<" ">> \o sub_dashes(SubSeq(s, skip_ws(s, j + 1), Len(s)))
            ELSE <<s[1]>> \o sub_dashes(Tail(s))

\* re.sub(r'\s+', ' ', s)
RECURSIVE collapse_ws(_)
collapse_ws(s) ==
    IF Len(s) = 0 THEN <<>>
    ELSE IF IsSpace(s[1]) THEN <<" ">> \o collapse_ws(SubSeq(s, skip_ws(s, 1), Len(s)))
    ELSE <<s[1]>> \o collapse_ws(Tail(s))

\* s.rstrip('.,:;')
RECURSIVE rstrip_punct(_)
rstrip_punct(s) ==
    IF Len(s) > 0 /\ s[Len(s)] \in {".", ",", ":", ";"}
    THEN rstrip_punct(SubSeq(s, 1, Len(s) - 1)) ELSE s

\* normalize_string on a string (the value is not NA); Unicode NFC
\* composition leaves the characters used here unchanged
normalize_text(s0) ==
    LET s1 == replace(strip(s0), <<notsign>>, <<>>)
        s2 == lower(s1)
        s3 == replace(s2, <<" ", "&", " ">>, <<" ", "u", "n", "d", " ">>)
        s4 == replace(s3, <<"&">>, <<" ", "u", "n", "d", " ">>)
        s5 == sub_dashes(s4)
        s6 == replace(replace(replace(s5, <<"o", "e">>, <<ouml>>),
                              <<"a", "e">>, <<auml>>), <<"u", "e">>, <<uuml>>)
        s7 == replace(s6, <<"s", "s">>, <<szlig>>)
        s8 == strip(collapse_ws(s7))
    IN rstrip_punct(s8)

\* normalize_string: None for an NA value, else Str(normalised text)
normalize_string(val) == IF ~notna(val) THEN None ELSE Str(normalize_text(str(val)))

\* re.sub(r'\([^)]*\)', '', val)
RECURSIVE drop_parens(_)
drop_parens(s) ==
    IF Len(s) = 0 THEN <<>>
    ELSE IF s[1] = "(" /\ contains(Tail(s), ")")
    THEN drop_parens(after_first(Tail(s), ")"))
    ELSE <<s[1]>> \o drop_parens(Tail(s))

\* val.split(':')[0]
before_first(s, c) ==
    IF contains(s, c)
    THEN SubSeq(s, 1, (CHOOSE k \in 1..Len(s) : s[k] = c /\ \A m \in 1..(k - 1) : s[m] /= c) - 1)
    ELSE s

_normalize_publisher(val) == strip(drop_parens(before_first(val, ":")))

\* the fields compare_fields looks at
COMPARE_FIELDS == {"title", "authors", "year", "publisher"}

\* normalised form compare_fields compares for one field
compare_key(field, v) ==
    IF field = "publisher" THEN normalize_string(Str(_normalize_publisher(str(v))))
    ELSE normalize_string(v)

\* compare_fields(base, other): [conflicts, confirmations]; conflicts maps
\* a field to {vdeh, dnb}, confirmations maps a field to str(base value)
compare_fields_other(base, other) ==
    LET o(f) == IF IsRecordDict(other) THEN other[f] ELSE None
        both == {f \in COMPARE_FIELDS : notna(base[f]) /\ notna(o(f))}
        same == {f \in both : compare_key(f, base[f]) = compare_key(f, o(f))}
    IN [conflicts |-> [f \in both \ same |-> [vdeh |-> str(base[f]), dnb |-> str(o(f))]],
        confirmations |-> [f \in same |-> str(o(f))]]
compare_fields(base, other) ==
    LET o(f) == IF IsRecordDict(other) THEN other[f] ELSE None
        both == {f \in COMPARE_FIELDS : notna(base[f]) /\ notna(o(f))}
        same == {f \in both : compare_key(f, base[f]) = compare_key(f, o(f))}
    IN [conflicts |-> [f \in both \ same |-> [vdeh |-> str(base[f]), dnb |-> str(o(f))]],
        confirmations |-> [f \in same |-> str(base[f])]]

\* ------------------------------------------------------------------------
\* FusionResult
\* ------------------------------------------------------------------------
\* None in an attribute whose values are literal strings (source tags,
\* variant names, trigger reasons)
null == "null"

\* FusionResult() with every argument at its default
FusionResult ==
    [values |-> [f \in FieldSet |-> None],
     sources |-> [f \in FieldSet |-> null],
     conflicts |-> None,
     confirmations |-> None,
     ai_reasoning |-> None,
     dnb_variant_selected |-> null,
     dnb_match_rejected |-> FALSE,
     rejection_reason |-> None,
     title_similarity_score |-> None,
     pages_difference |-> None,
     fusion_trigger_reason |-> null,
     fusion_variants_available |-> None,
     fusion_conflicts_detected |-> None,
     fusion_validation_metrics |-> None,
     fusion_selected_variant |-> null,
     loc_match_rejected |-> FALSE]

\* the seven values copied from the VDEh record, every tag 'vdeh'
\* (lines 615-630, 672-686, 753-767, 798-812)
vdeh_only_rejected(vdeh_data) ==
    [FusionResult EXCEPT !.values = [f \in FieldSet |-> vdeh_data[f]],
                         !.sources = [f \in FieldSet |-> "vdeh"],
                         !.dnb_match_rejected = TRUE]
vdeh_only(vdeh_data) ==
    [FusionResult EXCEPT !.values = [f \in FieldSet |-> vdeh_data[f]],
                         !.sources = [f \in FieldSet |-> "vdeh"]]

\* ------------------------------------------------------------------------
\* FusionEngine.build_ai_prompt, FusionEngine.build_tracking_data
\* ------------------------------------------------------------------------
SLOTS == <<"dnb_id", "dnb_ta", "dnb_ty", "loc_id", "loc_ta", "loc_ty">>
SlotSet == {SLOTS[i] : i \in 1..Len(SLOTS)}
LocSlots == {"loc_id", "loc_ta", "loc_ty"}

\* letter of a slot in variants_dict and in the prompt: A..F in slot order
letter_of(slot) == CHOICES[CHOOSE i \in 1..Len(SLOTS) : SLOTS[i] = slot]
slot_of(letter) == SLOTS[CHOOSE i \in 1..Len(CHOICES) : CHOICES[i] = letter]

\* format_record_for_display: the four displayed fields, None standing for
\* 'nicht vorhanden'
format_record_for_display(entry) ==
    [f \in COMPARE_FIELDS |->
        IF IsRecordDict(entry) /\ notna(entry[f]) THEN Str(str(entry[f])) ELSE None]

\* build_ai_prompt: which template, which variants are shown under which
\* letter, which answer formats are offered, and the language hint.
\* v maps each slot to its variant (None when not available).
build_ai_prompt(vdeh, v, language) ==
    LET has_loc == \E s \in LocSlots : v[s] /= None
    IN IF ~has_loc
       THEN [template |-> "dnb_only",
             vdeh |-> format_record_for_display(vdeh),
             shown |-> [l \in {"A", "B"} |-> format_record_for_display(v[slot_of(l)])],
             formats |-> {"A", "B", "KEINE", "A&B"},
             language |-> None]
       ELSE [template |-> "extended",
             vdeh |-> format_record_for_display(vdeh),
             shown |-> [l \in {letter_of(s) : s \in {x \in SlotSet : v[x] /= None}} |->
                          format_record_for_display(v[slot_of(l)])],
             formats |-> {"A", "B", "C", "D", "E", "F", "KEINE"},
             language |-> IF truthy(language) THEN language ELSE None]

\* str(v).lower() of the truthy values of one field over the VDEh record
\* and every variant present (lines 424-459)
tracked_values(vdeh_data, v, field) ==
    LET vals == {vdeh_data[field]} \cup {v[s][field] : s \in {x \in SlotSet : v[x] /= None}}
    IN {lower(str(x)) : x \in {y \in vals : notna(y) /\ truthy(y)}}

\* build_tracking_data: [raised |-> FALSE, trigger_reason, variants_available,
\* conflicts_detected, validation_metrics] or [raised |-> TRUE, exc] when
\* validate_dnb_match raises for an available variant (line 479)
\* lines 412-498, with avail the variants that carry data, val the
\* validator's verdict on each and conflicting the fields with more than one
\* distinct value
tracking_of(vdeh_data, v, trigger_reason, avail, val, conflicting) ==
    IF \E s \in avail : val[s].raised
    THEN [raised |-> TRUE, exc |-> val[CHOOSE s \in avail : val[s].raised].exc]
    ELSE [raised |-> FALSE,
          trigger_reason |-> trigger_reason,
          variants_available |-> [json |-> [l \in {letter_of(s) : s \in SlotSet} |->
                                              slot_of(l) \in avail]],
          conflicts_detected |-> IF conflicting = {} THEN None
                                 ELSE [json |-> conflicting],
          validation_metrics |->
             [json |-> [n \in avail |->
                 [title_similarity |->
                     calculate_title_similarity(vdeh_data["title"], v[n]["title"]),
                  year_difference |-> year_difference(vdeh_data["year"], v[n]["year"]),
                  valid |-> val[n].valid,
                  validation_reason |-> val[n].reason]]]]

\* the variants that carry data (line 465)
tracked_variants(v) ==
    {s \in SlotSet : v[s] /= None /\ \E f \in FieldSet : notna(v[s][f])}

build_tracking_data(vdeh_data, v, trigger_reason) ==
    tracking_of(vdeh_data, v, trigger_reason,
        tracked_variants(v),
        [s \in tracked_variants(v) |->
            validate_dnb_match(vdeh_data, v[s], min_title_similarity,
                               max_year_diff, max_pages_diff)],
        {f \in COMPARE_FIELDS : Cardinality(tracked_values(vdeh_data, v, f)) > 1})

\* ------------------------------------------------------------------------
\* FusionEngine.merge_record
\* ------------------------------------------------------------------------
\* default of FusionEngine.__init__
ty_similarity_threshold == Frac(7, 10)
\* the lower bound of the borderline band (line 652)
ty_borderline == Frac(5, 10)

\* variant_mapping (lines 779-786): letter -> source tag of the variant
variant_key_dnb(choice) ==
    CASE choice \in {"A", "D"} -> "dnb_id"
      [] choice \in {"B", "E"} -> "dnb_title_author"
      [] choice \in {"C", "F"} -> "dnb_title_year"
variant_key(choice) ==
    CASE choice = "A" -> "dnb_id"
      [] choice = "B" -> "dnb_title_author"
      [] choice = "C" -> "dnb_title_year"
      [] choice = "D" -> "loc_id"
      [] choice = "E" -> "loc_title_author"
      [] choice = "F" -> "loc_title_year"
VariantKeys == {variant_key(CHOICES[i]) : i \in 1..Len(CHOICES)}

\* variant_mapping: letter -> the variant's data
variant_slot(choice) ==
    CASE choice = "A" -> "dnb_id"
      [] choice = "B" -> "dnb_ta"
      [] choice = "C" -> "dnb_ty"
      [] choice = "D" -> "loc_id"
      [] choice = "E" -> "loc_ta"
      [] choice = "F" -> "loc_ty"

\* lines 525-611: the variant read from the row, None when LoC is
\* disabled or no field of it is set
extract_variant(eng, r, slot) ==
    IF slot \in LocSlots /\ ~eng.enable_loc THEN None
    ELSE IF \E f \in FieldSet : notna(r[slot][f]) THEN r[slot] ELSE None

\* what a call returns: a FusionResult or an exception, with the prompts
\* sent to the arbitration client on the way
Returned_requerying(res, prompts) ==
    [status |-> "returned", result |-> res, exc |-> null, prompts |-> prompts \o prompts]
Returned(res, prompts) ==
    [status |-> "returned", result |-> res, exc |-> null, prompts |-> prompts]
Raised(exc, prompts) ==
    [status |-> "raised", result |-> None, exc |-> exc, prompts |-> prompts]

\* x[:50] in the log line of the rejection raises TypeError for a truthy
\* value that is not a string (line 670)
slice_raises(x) == truthy(x) /\ ~IsStr(x)

\* ty_accept with exclusive bounds
ty_accept_exclusive(threshold, similarity, pages_match) ==
    \/ frac_gt(similarity, threshold)
    \/ frac_gt(similarity, ty_borderline) /\ pages_match

\* lines 644-664: the accept decision of the title-year gate
\* ty_accept whose page rescue ends at the threshold, which it excludes
ty_accept_band(threshold, similarity, pages_match) ==
    \/ frac_gt(similarity, threshold)
    \/ frac_ge(similarity, ty_borderline) /\ frac_lt(similarity, threshold) /\ pages_match
ty_accept(threshold, similarity, pages_match) ==
    \/ frac_ge(similarity, threshold)
    \/ frac_ge(similarity, ty_borderline) /\ pages_match

\* lines 706-721: field assignment of the title-year acceptance
ty_assign(res, vdeh_data, dnb_ty) ==
    [res EXCEPT
        !.values = [f \in FieldSet |->
            IF notna(vdeh_data[f]) THEN vdeh_data[f]
            ELSE IF notna(dnb_ty[f]) THEN dnb_ty[f]
            ELSE None],
        !.sources = [f \in FieldSet |->
            IF notna(vdeh_data[f]) THEN "vdeh"
            ELSE IF notna(dnb_ty[f]) THEN "dnb_title_year"
            ELSE null]]

\* lines 632-723: Case 1.5
ty_decide(eng, vdeh_data, dnb_ty, similarity, pm) ==
    IF ~ty_accept(eng.ty_similarity_threshold, similarity, pm.matches)
    THEN IF slice_raises(vdeh_data["title"]) \/ slice_raises(dnb_ty["title"])
         THEN Raised("TypeError", <<>>)
         ELSE Returned(
                [vdeh_only(vdeh_data) EXCEPT
                   !.dnb_match_rejected = TRUE,
                   !.rejection_reason =
                       [text |-> "TY-Match zu unsicher", similarity |-> similarity,
                        pages_mismatch |-> pm.diff],
                   !.title_similarity_score = similarity,
                   !.pages_difference = pm.diff], <<>>)
    ELSE Returned(
           ty_assign([FusionResult EXCEPT
                        !.dnb_variant_selected = "title_year",
                        !.ai_reasoning =
                            [text |-> "TY-Variante als Fallback", similarity |-> similarity,
                             pages_confirmed |-> ~frac_ge(similarity, eng.ty_similarity_threshold)],
                        !.title_similarity_score = similarity,
                        !.pages_difference = pm.diff],
                     vdeh_data, dnb_ty), <<>>)

\* the similarity and the page comparison the decision is taken on
\* (lines 635-642)
ty_case(eng, vdeh_data, dnb_ty) ==
    ty_decide(eng, vdeh_data, dnb_ty,
              calculate_title_similarity(vdeh_data["title"], dnb_ty["title"]),
              calculate_pages_match(vdeh_data["pages"], dnb_ty["pages"], tolerance))

\* ai_assign that lets the selected variant's value win
ai_assign_replacing(res, vdeh_data, selected_variant, selected_data, confirmations) ==
    LET d(f) == IF IsRecordDict(selected_data) THEN selected_data[f] ELSE None
    IN [res EXCEPT
        !.values = [f \in FieldSet |->
            IF notna(d(f)) THEN d(f)
            ELSE IF notna(vdeh_data[f]) THEN vdeh_data[f]
            ELSE None],
        !.sources = [f \in FieldSet |->
            IF notna(d(f)) THEN selected_variant
            ELSE IF notna(vdeh_data[f]) THEN "vdeh"
            ELSE IF f /= "isbn" /\ f /= "issn" THEN "vdeh" ELSE null]]

\* lines 836-859: field assignment of an accepted arbitration choice
ai_assign(res, vdeh_data, selected_variant, selected_data, confirmations) ==
    LET d(f) == IF IsRecordDict(selected_data) THEN selected_data[f] ELSE None
    IN [res EXCEPT
        !.values = [f \in FieldSet |->
            IF notna(vdeh_data[f]) THEN vdeh_data[f]
            ELSE IF notna(d(f)) THEN d(f)
            ELSE None],
        !.sources = [f \in FieldSet |->
            IF notna(vdeh_data[f])
            THEN IF notna(d(f)) /\ f \in DOMAIN confirmations THEN "confirmed" ELSE "vdeh"
            ELSE IF notna(d(f)) THEN selected_variant
            ELSE IF f /= "isbn" /\ f /= "issn" THEN "vdeh" ELSE null]]

\* lines 751-776: Case 3, the answer is KEINE
keine_result_unreasoned(vdeh_data, tracking, reason) ==
    [vdeh_only(vdeh_data) EXCEPT
        !.ai_reasoning = [text |-> "KI", reason |-> reason],
        !.dnb_match_rejected = TRUE,
        !.rejection_reason = None,
        !.fusion_trigger_reason = tracking.trigger_reason,
        !.fusion_variants_available = tracking.variants_available,
        !.fusion_conflicts_detected = tracking.conflicts_detected,
        !.fusion_validation_metrics = tracking.validation_metrics,
        !.fusion_selected_variant = "KEINE"]
keine_result(vdeh_data, tracking, reason) ==
    [vdeh_only(vdeh_data) EXCEPT
        !.ai_reasoning = [text |-> "KI", reason |-> reason],
        !.dnb_match_rejected = TRUE,
        !.rejection_reason = [text |-> reason],
        !.fusion_trigger_reason = tracking.trigger_reason,
        !.fusion_variants_available = tracking.variants_available,
        !.fusion_conflicts_detected = tracking.conflicts_detected,
        !.fusion_validation_metrics = tracking.validation_metrics,
        !.fusion_selected_variant = "KEINE"]

\* invalid_result that keeps the selected variant as the source of the fields
invalid_result_tagged(vdeh_data, selected_variant, validation_reason) ==
    [vdeh_only(vdeh_data) EXCEPT
        !.sources = [f \in FieldSet |-> selected_variant],
        !.ai_reasoning = [text |-> "KI waehlte, aber Validierung fehlgeschlagen",
                          variant |-> selected_variant],
        !.dnb_variant_selected = selected_variant,
        !.rejection_reason = [text |-> "Validierung", validation |-> validation_reason]]

\* lines 793-816: the validator rejected the selected variant
invalid_result(vdeh_data, selected_variant, validation_reason) ==
    [vdeh_only(vdeh_data) EXCEPT
        !.ai_reasoning = [text |-> "KI waehlte, aber Validierung fehlgeschlagen",
                          variant |-> selected_variant],
        !.dnb_match_rejected = TRUE,
        !.rejection_reason = [text |-> "Validierung", validation |-> validation_reason]]

\* lines 818-861: the selected variant passed the validator
accepted_with(vdeh_data, tracking, choice, reason, selected_data, validation_reason, cmp, selected_variant) ==
    ai_assign(
      [FusionResult EXCEPT
         !.conflicts = IF DOMAIN cmp.conflicts = {} THEN None ELSE [json |-> cmp.conflicts],
         !.confirmations = IF DOMAIN cmp.confirmations = {} THEN None
                           ELSE [json |-> cmp.confirmations],
         !.ai_reasoning = [text |-> "KI Entscheidung", choice |-> choice,
                           variant |-> selected_variant, reason |-> reason,
                           validation |-> validation_reason],
         !.dnb_variant_selected = IF choice \in {"A", "B", "C"} THEN selected_variant ELSE null,
         !.loc_match_rejected = FALSE,
         !.fusion_trigger_reason = tracking.trigger_reason,
         !.fusion_variants_available = tracking.variants_available,
         !.fusion_conflicts_detected = tracking.conflicts_detected,
         !.fusion_validation_metrics = tracking.validation_metrics,
         !.fusion_selected_variant = choice],
      vdeh_data, selected_variant, selected_data, cmp.confirmations)

\* compare_fields against the selected variant (line 819) and its source
\* tag (line 788)
accepted_result(vdeh_data, tracking, choice, reason, selected_data, validation_reason) ==
    accepted_with(vdeh_data, tracking, choice, reason, selected_data, validation_reason,
                  compare_fields(vdeh_data, selected_data), variant_key(choice))

\* lines 745-861: Cases 2-4.  answer is what OllamaClient.query does for the
\* prompt: [raises |-> TRUE] (OllamaUnavailableError) or
\* [raises |-> FALSE, text |-> None or Str(text)]
ai_decide_swallowing(vdeh_data, tracking, prompt, answer, parsed, selected_data, validation) ==
    IF tracking.raised THEN Raised(tracking.exc, <<>>)
    ELSE IF answer.raises
    THEN Returned(keine_result(vdeh_data, tracking, Str(<<>>)), <<prompt>>)
    ELSE IF parsed.choice = "KEINE"
    THEN Returned(keine_result(vdeh_data, tracking, parsed.reason), <<prompt>>)
    ELSE IF validation.raised THEN Raised(validation.exc, <<prompt>>)
    ELSE IF ~validation.valid
    THEN Returned(invalid_result(vdeh_data, variant_key(parsed.choice), validation.reason),
                  <<prompt>>)
    ELSE Returned(accepted_result(vdeh_data, tracking, parsed.choice, parsed.reason,
                                  selected_data, validation.reason), <<prompt>>)
ai_decide(vdeh_data, tracking, prompt, answer, parsed, selected_data, validation) ==
    IF tracking.raised THEN Raised(tracking.exc, <<>>)
    ELSE IF answer.raises THEN Raised("OllamaUnavailableError", <<prompt>>)
    ELSE IF parsed.choice = "KEINE"
    THEN Returned(keine_result(vdeh_data, tracking, parsed.reason), <<prompt>>)
    ELSE IF validation.raised THEN Raised(validation.exc, <<prompt>>)
    ELSE IF ~validation.valid
    THEN Returned(invalid_result(vdeh_data, variant_key(parsed.choice), validation.reason),
                  <<prompt>>)
    ELSE Returned(accepted_result(vdeh_data, tracking, parsed.choice, parsed.reason,
                                  selected_data, validation.reason), <<prompt>>)

\* lines 779-791: the variant the letter maps to and the validator's verdict
ai_select(vdeh_data, tracking, prompt, answer, parsed, selected_data) ==
    ai_decide(vdeh_data, tracking, prompt, answer, parsed, selected_data,
              validate_dnb_match(vdeh_data, selected_data, min_title_similarity,
                                 max_year_diff, max_pages_diff))

\* lines 745-749: the query and the parse of its answer
ai_query(vdeh_data, v, tracking, prompt, answer, parsed) ==
    ai_select(vdeh_data, tracking, prompt, answer, parsed,
              IF parsed.choice = "KEINE" THEN None ELSE v[variant_slot(parsed.choice)])

\* lines 738-743: the trigger reason recorded with the tracking data
trigger_reason_of(v) ==
    IF \E s \in {"dnb_id", "dnb_ta", "loc_id", "loc_ta"} : v[s] /= None
    THEN "multiple_sources_available" ELSE "no_ai_needed"

ai_case(vdeh_data, v, language, answer) ==
    ai_query(vdeh_data, v,
             build_tracking_data(vdeh_data, v, trigger_reason_of(v)),
             build_ai_prompt(vdeh_data, v, language),
             answer,
             parse_ai_choice(answer.text))

\* merge_record(row) of an engine with configuration eng
merge_record(eng, r, answer) ==
    LET vdeh_data == r.vdeh
        v == [s \in SlotSet |-> extract_variant(eng, r, s)]
    IN IF \A s \in SlotSet : v[s] = None
       THEN Returned(vdeh_only(vdeh_data), <<>>)
       ELSE IF v["dnb_id"] = None /\ v["dnb_ta"] = None /\ v["dnb_ty"] /= None
       THEN ty_case(eng, vdeh_data, v["dnb_ty"])
       ELSE ai_case(vdeh_data, v, r.detected_language, answer)

\* ------------------------------------------------------------------------
\* OllamaClient.query
\* ------------------------------------------------------------------------
\* a boolean argument that may also be None
Flag(b) == [b |-> b]

\* resolve_arg that ignores the per-call argument
resolve_arg_instance(arg, default) == default

\* "x if x is not None else self.x" (lines 114-116)
resolve_arg(arg, default) == IF arg /= None THEN arg ELSE default

\* what one requests.post and the handling of its response can do:
\*   "ok"                status 200, the body decodes and holds a text
\*   "bad_body"          status 200, response.json() or .strip() raises (line 135)
\*   "http_error"        any other status (line 137)
\*   "timeout", "connection_error"   the exceptions of line 142
\*   "exception"         any other exception raised by the request (line 148)
HttpKinds == {"ok", "bad_body", "http_error", "timeout", "connection_error", "exception"}

\* the text line 135 returns for a decoded body: the 'response' entry,
\* '' when it is missing, stripped
response_text(body) == IF body = None THEN Str(<<>>) ELSE Str(strip(body.s))

\* the error kept in last_err by the branch that handled the attempt
last_err_of(kind) ==
    CASE kind = "http_error" -> "RuntimeError"
      [] kind = "timeout" -> "Timeout"
      [] kind = "connection_error" -> "ConnectionError"
      [] kind \in {"bad_body", "exception"} -> "Exception"

\* lines 113-118: the call, with its arguments resolved against the instance
query_begin(self, args) ==
    [self |-> self, args |-> args,
     max_retries |-> resolve_arg(args.max_retries, self.max_retries),
     abort_on_timeout |-> resolve_arg(args.abort_on_timeout, self.abort_on_timeout),
     attempt |-> 0, posts |-> 0, last |-> null, body |-> None, last_err |-> null,
     waits |-> <<>>,
     status |-> "running", result |-> None, exc |-> null]

\* lines 153-154: the seconds slept after the failed attempt number attempt
wait_sec(base, attempt) ==
    IF base * (2 ^ attempt) < 15 THEN base * (2 ^ attempt) ELSE 15

\* a retry loop that does not sleep after its last attempt
query_attempt_last_unwaited(c, kind, body) ==
    IF kind = "ok"
    THEN [c EXCEPT !.posts = @ + 1, !.last = kind, !.body = body,
                   !.status = "returned", !.result = response_text(body)]
    ELSE [c EXCEPT !.posts = @ + 1, !.last = kind, !.body = None,
                   !.last_err = last_err_of(kind), !.attempt = @ + 1,
                   !.waits = IF c.attempt + 1 < c.max_retries.n
                             THEN Append(@, wait_sec(c.self.retry_backoff_base_sec, c.attempt))
                             ELSE @]

\* lines 119-154: one iteration of the retry loop, the request ending as
\* kind with the decoded body's 'response' entry body
query_attempt(c, kind, body) ==
    IF kind = "ok"
    THEN [c EXCEPT !.posts = @ + 1, !.last = kind, !.body = body,
                   !.status = "returned", !.result = response_text(body)]
    ELSE [c EXCEPT !.posts = @ + 1, !.last = kind, !.body = None,
                   !.last_err = last_err_of(kind), !.attempt = @ + 1,
                   !.waits = Append(@, wait_sec(c.self.retry_backoff_base_sec, c.attempt))]

\* lines 156-161: the loop is over without a return
query_exhausted(c) ==
    IF c.abort_on_timeout.b
    THEN [c EXCEPT !.status = "raised", !.exc = "OllamaUnavailableError"]
    ELSE [c EXCEPT !.status = "returned", !.result = None]

\* ------------------------------------------------------------------------
\* Inputs
\* ------------------------------------------------------------------------
\* at most this many of the six variant slots carry data in a generated row
MaxVariants == 2
\* longest generated arbitration response, in characters
MaxResponseLen == 3
\* largest max_retries generated for an OllamaClient or a query call
MaxRetries == 4

Rec(title, authors, year, publisher, pages, isbn, issn) ==
    [f \in FieldSet |->
        CASE f = "title" -> title
          [] f = "authors" -> authors
          [] f = "year" -> year
          [] f = "publisher" -> publisher
          [] f = "pages" -> pages
          [] f = "isbn" -> isbn
          [] f = "issn" -> issn]

\* a variant none of whose columns is set
Absent == Rec(None, None, None, None, None, None, None)

t_abc == <<"a", "b", "c">>
t_Abc_ == <<"A", "b", "c", " ">>
t_abd == <<"a", "b", "d">>
t_a == <<"a">>
t_xyz == <<"x", "y", "z">>
t_tide == <<"t", "i", "d", "e">>
t_diet == <<"d", "i", "e", "t">>
t_long1 == <<"a", "a", "a", "a", "a", "a", "a", "b", "b", "b">>
t_long2 == <<"a", "a", "a", "a", "a", "a", "a", "c", "c", "c">>

p_empty == <<>>
p_0S == <<"0", " ", "S", ".">>
p_0p == <<"0", " ", "p", ".">>
p_90S == <<"9", "0", " ", "S", ".">>
p_95S == <<"9", "5", " ", "S", ".">>
p_100S == <<"1", "0", "0", " ", "S", ".">>
p_105p == <<"X", "V", ",", " ", "1", "0", "5", " ", "p", ".">>
p_110p == <<"1", "1", "0", " ", "p", ".">>
p_300_95p == <<"3", "0", "0", ",", " ", "9", "5", " ", "p", ".">>
p_S95 == <<"S", ".", " ", "9", "5", " ">>
p_150p == <<"1", "5", "0", " ", "p", "a", "g", "e", "s">>

\* VDEh records of the merge specification
SourceRecords ==
    { Rec(Str(t_abc), Str(<<"x">>), Num(2000), Str(<<"x">>), Str(p_100S), Str(<<"i">>), Str(<<"i">>)),
      Rec(Str(t_abc), Str(<<"x">>), NaN, None, Str(p_empty), None, None),
      Rec(None, None, Num(2000), None, NaN, None, Str(<<"i">>)),
      Rec(Str(t_abc), None, None, None, Str(p_100S), None, None) }

\* catalogue records of the merge specification
CandidateRecords ==
    { Rec(Str(t_Abc_), Str(<<"X">>), Num(2002), Str(<<"y">>), Str(p_110p), Str(<<"j">>), None),
      Rec(Str(t_abd), None, Num(2003), None, Str(p_150p), None, Str(<<"k">>)),
      Rec(Str(t_xyz), Str(<<"z">>), None, None, None, None, None) }

\* rows: a VDEh record, the six variants' columns, the language column
Row(vdeh, var, lang) ==
    [vdeh |-> vdeh, dnb_id |-> var["dnb_id"], dnb_ta |-> var["dnb_ta"],
     dnb_ty |-> var["dnb_ty"], loc_id |-> var["loc_id"], loc_ta |-> var["loc_ta"],
     loc_ty |-> var["loc_ty"], detected_language |-> lang]

VariantChoices ==
    { var \in [SlotSet -> CandidateRecords \cup {Absent}] :
        Cardinality({s \in SlotSet : var[s] /= Absent}) <= MaxVariants }

Rows == { Row(s, var, None) : s \in SourceRecords, var \in VariantChoices }

\* title and page strings of the title-year gate specification
GateSourceTitles == {None, NaN, Str(t_abc), Str(t_long1), Str(t_tide)}
GateCandidateTitles == {None, Str(t_Abc_), Str(t_abd), Str(t_a), Str(t_xyz), Str(t_long2), Str(t_diet)}
GateSourcePages == {None, Str(p_empty), Str(p_0S), Str(p_95S), Str(p_100S)}
GateCandidatePages == {None, Str(p_0p), Str(p_105p), Str(p_110p), Str(p_300_95p), Str(p_S95)}

GateRows ==
    { Row(Rec(st, None, Num(2000), None, sp, None, None),
          [s \in SlotSet |-> IF s = "dnb_ty"
                              THEN Rec(ct, Str(<<"z">>), Num(2000), None, cp, Str(<<"j">>), None)
                              ELSE Absent],
          Str(<<"d", "e">>)) :
        st \in GateSourceTitles, ct \in GateCandidateTitles,
        sp \in GateSourcePages, cp \in GateCandidatePages }

\* texts the arbitration service answers with in the merge specification
ResponseTexts ==
    { <<"A", " ", "-", " ", "o", "k">>,
      <<"b">>,
      <<" ", "C", "\n">>,
      <<"D", "-">>,
      <<"E">>,
      <<"F", " ", "x">>,
      <<"K", "E", "I", "N", "E", " ", "-", " ", "n", "o">>,
      <<"A", "&", "B", " ", "-", " ", "o", "k">> }

\* further texts for the parser specification
OtherTexts ==
    { <<"k", "e", "i", "n">>,
      <<"K", "E", "I", "N", "E", " ", "-">>,
      <<"B", "&", "A", " ", "-", " ", "o", "k">>,
      <<"a", "&", "b", "-", "x">>,
      <<"?">> }

\* what OllamaClient.query does for one prompt
Answers ==
    {[raises |-> TRUE, text |-> None]} \cup
    {[raises |-> FALSE, text |-> x] : x \in {None} \cup {Str(s) : s \in ResponseTexts}}

\* the characters generated responses are made of
ResponseChars == {"A", "B", "a", "f", "G", "&", "-", " ", "\n"}

RECURSIVE StringsUpTo(_, _)
StringsUpTo(chars, n) ==
    IF n = 0 THEN {<<>>}
    ELSE LET shorter == StringsUpTo(chars, n - 1)
         IN shorter \cup {Append(s, c) : s \in shorter, c \in chars}

ParseInputs ==
    {None} \cup {Str(s) : s \in ResponseTexts \cup OtherTexts
                                  \cup StringsUpTo(ResponseChars, MaxResponseLen)}

\* engines: FusionEngine(ollama, enable_loc=True | False)
Engines == {[enable_loc |-> b, ty_similarity_threshold |-> ty_similarity_threshold] : b \in BOOLEAN}

\* OllamaClient instances and the arguments of a query call
\* the retry_backoff_base_sec an OllamaClient is built with (default 2)
BackoffBases == {2, 8}
ClientConfigs ==
    {[max_retries |-> Num(n), abort_on_timeout |-> Flag(b), retry_backoff_base_sec |-> base] :
        n \in 0..MaxRetries, b \in BOOLEAN, base \in BackoffBases}
QueryArgs ==
    {[max_retries |-> n, abort_on_timeout |-> b] :
        n \in {None} \cup {Num(k) : k \in 0..MaxRetries},
        b \in {None, Flag(TRUE), Flag(FALSE)}}
\* the 'response' entry of a decoded body (None: no such entry)
ResponseBodies == {None, Str(<<>>), Str(<<" ", "A", " ", "-", " ", "o", "k", "\n">>)}

\* ------------------------------------------------------------------------
\* State
\* ------------------------------------------------------------------------
VARIABLES
    pc,        \* "idle", "loaded", "done": where the caller is with the current row;
               \* "parse", "parsed" in the parser specification
    engine,    \* the FusionEngine's configuration
    row,       \* the row handed to merge_record
    answer,    \* what the arbitration client did when merge_record queried it
    outcome,   \* what merge_record did: result or exception, and the prompts sent
    parsed,    \* what parse_ai_choice returned
    client,    \* one OllamaClient.query call: configuration, arguments, locals
    batch,     \* one run of a batch script: records, loop position, results
    validation \* one validate_dnb_match call: the two records and the verdict

vars == <<pc, engine, row, answer, outcome, parsed, client, batch, validation>>

NoRow == Row(Absent, [s \in SlotSet |-> Absent], None)
NoAnswer == [raises |-> FALSE, text |-> None]
NoOutcome == [status |-> "none", result |-> None, exc |-> null, prompts |-> <<>>]
NoParse == [choice |-> null, reason |-> <<>>]
NoClient == [status |-> "none"]
NoBatch == [status |-> "none"]
NoVerdict == [raised |-> FALSE, valid |-> TRUE, reason |-> [check |-> "none"]]
NoValidation == [vdeh_data |-> Absent, dnb_data |-> Absent, done |-> FALSE, out |-> NoVerdict]

Init ==
    /\ pc = "idle"
    /\ engine \in Engines
    /\ row = NoRow
    /\ answer = NoAnswer
    /\ outcome = NoOutcome
    /\ parsed = NoParse
    /\ client = NoClient
    /\ batch = NoBatch
    /\ validation = NoValidation

\* the caller takes the next row
LoadRow ==
    /\ pc = "idle"
    /\ row' \in Rows
    /\ pc' = "loaded"
    /\ answer' = NoAnswer
    /\ outcome' = NoOutcome
    /\ UNCHANGED <<engine, parsed, client, batch, validation>>

\* engine.merge_record(row); the arbitration client, if queried, answers a
\* (raises, returns None or returns a text)
MergeRecord ==
    /\ pc = "loaded"
    /\ \E a \in Answers :
          /\ outcome' = merge_record(engine, row, a)
          /\ answer' = IF Len(outcome'.prompts) > 0 THEN a ELSE NoAnswer
    /\ pc' = "done"
    /\ UNCHANGED <<engine, row, parsed, client, batch, validation>>

\* the caller is done with the row
NextRecord ==
    /\ pc = "done"
    /\ pc' = "idle"
    /\ row' = NoRow
    /\ answer' = NoAnswer
    /\ outcome' = NoOutcome
    /\ UNCHANGED <<engine, parsed, client, batch, validation>>

Next == LoadRow \/ MergeRecord \/ NextRecord

Spec == Init /\ [][Next]_vars

\* merge_record on rows whose only variant is the DNB title-year one
InitGate ==
    /\ pc = "loaded"
    /\ engine \in Engines
    /\ row \in GateRows
    /\ answer = NoAnswer
    /\ outcome = NoOutcome
    /\ parsed = NoParse
    /\ client = NoClient
    /\ batch = NoBatch
    /\ validation = NoValidation

NextGate == MergeRecord \/ NextRecord

SpecGate == InitGate /\ [][NextGate]_vars

\* parse_ai_choice on its own
InitParse ==
    /\ pc = "parse"
    /\ engine \in {e \in Engines : e.enable_loc}
    /\ row = NoRow
    /\ answer \in {[raises |-> FALSE, text |-> x] : x \in ParseInputs}
    /\ outcome = NoOutcome
    /\ parsed = NoParse
    /\ client = NoClient
    /\ batch = NoBatch
    /\ validation = NoValidation

ParseChoice ==
    /\ pc = "parse"
    /\ parsed' = parse_ai_choice(answer.text)
    /\ pc' = "parsed"
    /\ UNCHANGED <<engine, row, answer, outcome, client, batch, validation>>

NextParse == ParseChoice

SpecParse == InitParse /\ [][NextParse]_vars

\* OllamaClient.query on its own
InitQuery ==
    /\ pc = "client"
    /\ engine \in {e \in Engines : e.enable_loc}
    /\ row = NoRow
    /\ answer = NoAnswer
    /\ outcome = NoOutcome
    /\ parsed = NoParse
    /\ client \in {query_begin(s, a) : s \in ClientConfigs, a \in QueryArgs}
    /\ batch = NoBatch
    /\ validation = NoValidation

\* one pass of the retry loop
QueryAttempt ==
    /\ pc = "client"
    /\ client.status = "running"
    /\ client.attempt < client.max_retries.n
    /\ \E kind \in HttpKinds, body \in ResponseBodies :
          /\ kind /= "ok" => body = None
          /\ client' = query_attempt(client, kind, body)
    /\ UNCHANGED <<pc, engine, row, answer, outcome, parsed, batch, validation>>

\* the loop ends without a return
QueryExhausted ==
    /\ pc = "client"
    /\ client.status = "running"
    /\ client.attempt >= client.max_retries.n
    /\ client' = query_exhausted(client)
    /\ UNCHANGED <<pc, engine, row, answer, outcome, parsed, batch, validation>>

NextQuery == QueryAttempt \/ QueryExhausted

SpecQuery == InitQuery /\ [][NextQuery]_vars

\* ------------------------------------------------------------------------
\* The batch loops of scripts/test_fusion_engine.py and
\* scripts/test_isbn_fusion.py
\* ------------------------------------------------------------------------
MaxBatch == 2
title_width == 60

Drivers == {"test_fusion_engine", "test_isbn_fusion"}

\* x[:n]
slice_to(s, n) == SubSeq(s, 1, IF Len(s) < n THEN Len(s) ELSE n)

\* test_fusion_engine.py line 51 prints row.get('title', 'N/A')[:60] before
\* the try: it raises TypeError for a title that is not a string
shows_title(driver, r) == driver = "test_fusion_engine" => IsStr(r.vdeh["title"])

\* the entry appended for a FusionResult (test_fusion_engine.py lines 70-80
\* without the sliced reasoning text; test_isbn_fusion.py lines 133-134, the
\* keys of to_dict the script reads)
success_entry(driver, idx, r, result) ==
    IF driver = "test_fusion_engine"
    THEN [index |-> idx,
          vdeh_title |-> Str(slice_to(r.vdeh["title"].s, title_width)),
          language |-> r.detected_language,
          title_source |-> result.sources["title"],
          dnb_variant |-> result.dnb_variant_selected,
          trigger_reason |-> result.fusion_trigger_reason,
          selected_variant |-> result.fusion_selected_variant,
          success |-> TRUE]
    ELSE [isbn |-> result.values["isbn"], issn |-> result.values["issn"],
          isbn_source |-> result.sources["isbn"],
          issn_source |-> result.sources["issn"]]

\* the entry appended by except Exception (test_fusion_engine.py lines
\* 87-93, test_isbn_fusion.py lines 144-149)
failure_entry(driver, idx, r, exc) ==
    IF driver = "test_fusion_engine"
    THEN [index |-> idx,
          vdeh_title |-> Str(slice_to(r.vdeh["title"].s, title_width)),
          language |-> r.detected_language,
          error |-> exc,
          success |-> FALSE]
    ELSE [isbn |-> None, issn |-> None, isbn_source |-> "error", issn_source |-> "error"]

\* the state of a run at the top of its loop: i is the position of the
\* next record, log the errors printed, answers what the arbitration client
\* did for each record merged
batch_begin(driver, rows) ==
    [driver |-> driver, rows |-> rows, i |-> 1, results |-> <<>>, log |-> <<>>,
     answers |-> <<>>, status |-> "running", exc |-> null]

\* the try statement, with an exception of merge_record leaving the loop
batch_merged_aborting(b, r, a, out) ==
    IF out.status = "returned"
    THEN [b EXCEPT !.results = Append(@, success_entry(b.driver, b.i, r, out.result)),
                   !.answers = Append(@, IF Len(out.prompts) > 0 THEN a ELSE NoAnswer),
                   !.i = @ + 1]
    ELSE [b EXCEPT !.status = "raised", !.exc = out.exc]
\* the try statement around merge_record: every Exception is caught,
\* printed and recorded, and the loop goes on
batch_merged(b, r, a, out) ==
    IF out.status = "returned"
    THEN [b EXCEPT !.results = Append(@, success_entry(b.driver, b.i, r, out.result)),
                   !.answers = Append(@, IF Len(out.prompts) > 0 THEN a ELSE NoAnswer),
                   !.i = @ + 1]
    ELSE [b EXCEPT !.results = Append(@, failure_entry(b.driver, b.i, r, out.exc)),
                   !.log = Append(@, [index |-> b.i, error |-> out.exc]),
                   !.answers = Append(@, IF Len(out.prompts) > 0 THEN a ELSE NoAnswer),
                   !.i = @ + 1]

\* an engine that switches its LoC variants off once it has merged a record
batch_record_reconfiguring(eng, b, a) ==
    IF ~shows_title(b.driver, b.rows[b.i])
    THEN [b EXCEPT !.status = "raised", !.exc = "TypeError"]
    ELSE batch_merged(b, b.rows[b.i], a,
                      merge_record([eng EXCEPT !.enable_loc = (b.i = 1)], b.rows[b.i], a))

\* one iteration of the loop for the record at position b.i
batch_record(eng, b, a) ==
    IF ~shows_title(b.driver, b.rows[b.i])
    THEN [b EXCEPT !.status = "raised", !.exc = "TypeError"]
    ELSE batch_merged(b, b.rows[b.i], a, merge_record(eng, b.rows[b.i], a))

\* the variant columns of a row with one variant
OnlySlot(slot, c) == [s \in SlotSet |-> IF s = slot THEN c ELSE Absent]

\* rows of the batch specification: no variant, an id-based variant, only
\* a LoC title-year variant; a full VDEh record and one without a title
BatchSources ==
    { Rec(Str(t_abc), Str(<<"x">>), Num(2000), Str(<<"x">>), Str(p_100S), Str(<<"i">>), Str(<<"i">>)),
      Rec(None, None, Num(2000), None, NaN, None, Str(<<"i">>)) }
BatchVariants ==
    { OnlySlot("dnb_id", Absent),
      OnlySlot("dnb_id", Rec(Str(t_Abc_), Str(<<"X">>), Num(2002), Str(<<"y">>), Str(p_110p), Str(<<"j">>), None)),
      OnlySlot("loc_ty", Rec(Str(t_abd), None, Num(2003), None, Str(p_150p), None, Str(<<"k">>))) }
BatchRows == { Row(s, var, None) : s \in BatchSources, var \in BatchVariants }
RowsUpTo(n) == UNION { [1..k -> BatchRows] : k \in 0..n }

\* what the arbitration client does in the batch specification
BatchAnswers ==
    { a \in Answers :
        a.raises \/ a.text \in {None, Str(<<"A", " ", "-", " ", "o", "k">>), Str(<<"b">>)} }

\* both scripts build FusionEngine(ollama_client, enable_loc=True)
InitBatch ==
    /\ pc = "batch"
    /\ engine \in {e \in Engines : e.enable_loc}
    /\ row = NoRow
    /\ answer = NoAnswer
    /\ outcome = NoOutcome
    /\ parsed = NoParse
    /\ client = NoClient
    /\ batch \in {batch_begin(d, rows) : d \in Drivers, rows \in RowsUpTo(MaxBatch)}
    /\ validation = NoValidation

\* for idx in test_records / for idx, row in test_sample.iterrows()
BatchRecord ==
    /\ pc = "batch"
    /\ batch.status = "running"
    /\ batch.i <= Len(batch.rows)
    /\ \E a \in BatchAnswers : batch' = batch_record(engine, batch, a)
    /\ UNCHANGED <<pc, engine, row, answer, outcome, parsed, client, validation>>

\* the loop is over: the summary is printed
BatchSummary ==
    /\ pc = "batch"
    /\ batch.status = "running"
    /\ batch.i > Len(batch.rows)
    /\ batch' = [batch EXCEPT !.status = "done"]
    /\ UNCHANGED <<pc, engine, row, answer, outcome, parsed, client, validation>>

NextBatch == BatchRecord \/ BatchSummary

SpecBatch == InitBatch /\ [][NextBatch]_vars


\* ------------------------------------------------------------------------
\* validate_dnb_match on its own
\* ------------------------------------------------------------------------
\* title, year and pages values of the two records; the other fields are
\* not read by the validator
ValidateSourceTitles == {None, NaN, Str(<<>>), Str(t_abc)}
ValidateCandidateTitles == {None, Str(<<>>), Str(t_Abc_), Str(t_a), Str(t_abd), Str(t_xyz)}
ValidateSourceYears == {None, NaN, Num(2000), Str(<<"2", "0", "0", "0">>)}
ValidateCandidateYears == {None, Num(2002), Num(2003), Str(<<"2", "0", "a">>)}
ValidateSourcePages == {None, NaN, Str(p_empty), Str(p_0S), Str(p_90S), Str(p_100S)}
ValidateCandidatePages == {None, Str(p_empty), Str(p_0p), Str(p_110p), Str(p_150p)}

ValidateSources ==
    { Rec(ti, None, y, None, pg, None, None) :
        ti \in ValidateSourceTitles, y \in ValidateSourceYears, pg \in ValidateSourcePages }
ValidateCandidates ==
    { Rec(ti, None, y, None, pg, None, None) :
        ti \in ValidateCandidateTitles, y \in ValidateCandidateYears,
        pg \in ValidateCandidatePages }

InitValidate ==
    /\ pc = "validate"
    /\ engine \in {e \in Engines : e.enable_loc}
    /\ row = NoRow
    /\ answer = NoAnswer
    /\ outcome = NoOutcome
    /\ parsed = NoParse
    /\ client = NoClient
    /\ batch = NoBatch
    /\ validation \in {[vdeh_data |-> v, dnb_data |-> d, done |-> FALSE, out |-> NoVerdict] :
                          v \in ValidateSources, d \in ValidateCandidates}

\* FusionEngine.validate_dnb_match(vdeh_data, dnb_data) with its defaults
Validate ==
    /\ pc = "validate"
    /\ ~validation.done
    /\ validation' =
          [validation EXCEPT
              !.done = TRUE,
              !.out = validate_dnb_match(validation.vdeh_data, validation.dnb_data,
                                         min_title_similarity, max_year_diff,
                                         max_pages_diff)]
    /\ UNCHANGED <<pc, engine, row, answer, outcome, parsed, client, batch>>

NextValidate == Validate

SpecValidate == InitValidate /\ [][NextValidate]_vars


\* ------------------------------------------------------------------------
\* Properties
\* ------------------------------------------------------------------------
\* the state after merge_record returned a result
returned == pc = "done" /\ outcome.status = "returned"
res == outcome.result
\* the arbitration client was queried during the call
queried == Len(outcome.prompts) > 0
\* the variants merge_record works with for the current row
variant_of(s) == extract_variant(engine, row, s)
\* Case 1.5 was taken
ty_path == variant_of("dnb_id") = None /\ variant_of("dnb_ta") = None
           /\ variant_of("dnb_ty") /= None
\* the letter the answer was parsed to, when the client answered
answered == pc = "done" /\ queried /\ ~answer.raises
letter == parse_ai_choice(answer.text).choice
\* an arbitration choice was accepted / the title-year gate accepted
ai_accepted == returned /\ queried /\ ~res.dnb_match_rejected
ty_accepted == returned /\ ~queried /\ res.dnb_variant_selected = "title_year"
\* the candidate an accepted result was built from
selected_candidate ==
    IF ty_accepted THEN variant_of("dnb_ty") ELSE variant_of(variant_slot(letter))
cand_value(f) == IF selected_candidate = None THEN None ELSE selected_candidate[f]

\* C1: in every result merge_record returns, on every decision path, each
\* of the seven fields that is set in the VDEh record has the VDEh value.
C1_EnrichmentOnly ==
    returned => \A f \in FieldSet : notna(row.vdeh[f]) => res.values[f] = row.vdeh[f]

\* C1 witness: an arbitration choice was accepted whose variant has another
\* value for a field the VDEh record has.
C1_Witness ==
    /\ ai_accepted
    /\ \E f \in FieldSet :
          /\ notna(row.vdeh[f]) /\ notna(cand_value(f))
          /\ cand_value(f) /= row.vdeh[f]
          /\ res.values[f] = row.vdeh[f]

\* C2: in every result merge_record returns, a field's source tag is set
\* if and only if the field's value is set.
C2_TagIffValue ==
    returned => \A f \in FieldSet : (res.sources[f] /= null) <=> notna(res.values[f])

\* C3: when a candidate is accepted (title-year gate or arbitration choice
\* passing the validator), a field that neither the VDEh record nor the
\* selected candidate has is None in the result and has no source tag.
C3_BothEmptyNull ==
    (ai_accepted \/ ty_accepted) =>
        \A f \in FieldSet :
            (~notna(row.vdeh[f]) /\ ~notna(cand_value(f))) =>
                (res.values[f] = None /\ res.sources[f] = null)

\* C4: whatever text the arbitration service answers with, merge_record
\* returns a result and raises nothing.
C4_AnyTextReturns == answered => outcome.status = "returned"

id_or_ta_available ==
    \E s \in {"dnb_id", "dnb_ta", "loc_id", "loc_ta"} : variant_of(s) /= None
ty_available == \E s \in {"dnb_ty", "loc_ty"} : variant_of(s) /= None
\* the result was decided by the title-year gate: only that path records
\* the similarity score
gate_decided == returned /\ res.title_similarity_score /= None

\* C5: with no id-based and no title-author variant available and a
\* title-year variant of either catalogue available, merge_record decides by
\* the similarity gate and does not query the arbitration client.
C5_TitleYearOnlyGated ==
    (pc = "done" /\ ~id_or_ta_available /\ ty_available) =>
        (~queried /\ (returned => gate_decided))

\* C6: with an id-based or title-author variant of either catalogue
\* available, a returned result was decided by querying the arbitration
\* client and not by the title-year gate.
C6_IdOrTaArbitrated ==
    (returned /\ id_or_ta_available) => (queried /\ ~gate_decided)

\* the gate's inputs for the current row
gate_similarity == calculate_title_similarity(row.vdeh["title"], row.dnb_ty["title"])
gate_n1 == extract_page_number(row.vdeh["pages"])
gate_n2 == extract_page_number(row.dnb_ty["pages"])
pages_parse == gate_n1 /= None /\ gate_n2 /= None
\* |n1 - n2| <= 10% of (n1 + n2) / 2
pages_within_10pct == pages_parse /\ 20 * Abs(gate_n1.n - gate_n2.n) <= gate_n1.n + gate_n2.n
frac_eq(x, y) == x.num * y.den = y.num * x.den
\* a rejection of the gate: source-only, flagged, with the scores
gate_rejection_recorded ==
    /\ res.dnb_match_rejected
    /\ \A f \in FieldSet : res.values[f] = row.vdeh[f] /\ res.sources[f] = "vdeh"
    /\ res.dnb_variant_selected = null
    /\ res.rejection_reason /= None
    /\ frac_eq(res.title_similarity_score, gate_similarity)
    /\ (res.pages_difference /= None) <=> pages_parse
    /\ (pages_parse /\ gate_n1.n + gate_n2.n > 0) =>
           frac_eq(res.pages_difference,
                   Frac(2 * Abs(gate_n1.n - gate_n2.n), gate_n1.n + gate_n2.n))

selected_validation ==
    validate_dnb_match(row.vdeh, variant_of(variant_slot(letter)),
                       min_title_similarity, max_year_diff, max_pages_diff)
validator_rejected ==
    /\ answered /\ letter /= "KEINE"
    /\ ~selected_validation.raised /\ ~selected_validation.valid

\* C8: when the answer selects a letter and the validator rejects that
\* variant, the result is source-only with match_rejected set and a reason
\* naming the failed check; no value and no tag comes from the variant.
C8_ValidatorRejection ==
    validator_rejected =>
        /\ returned
        /\ res.dnb_match_rejected
        /\ res.rejection_reason /= None
        /\ res.rejection_reason.validation.check \in
              {"Titel zu unterschiedlich", "Jahr zu weit weg", "Seitenzahl zu unterschiedlich"}
        /\ \A f \in FieldSet : res.values[f] = row.vdeh[f] /\ res.sources[f] \notin VariantKeys
        /\ res.dnb_variant_selected = null

\* C8 witness: the validator rejected a selected variant that has a value
\* for a field the VDEh record lacks.
C8_Witness ==
    /\ validator_rejected /\ returned
    /\ \E f \in FieldSet :
          ~notna(row.vdeh[f]) /\ notna(variant_of(variant_slot(letter))[f])

\* the answer text as the parser looks at it: trimmed, upper case
parse_text == upper(strip(answer.text.s))
Letters == {CHOICES[i] : i \in 1..Len(CHOICES)}
\* a letter A-F followed by a space, hyphen, newline or the end of the text
well_formed(r) ==
    /\ Len(r) >= 1 /\ r[1] \in Letters
    /\ Len(r) >= 2 => r[2] \in {" ", "-", "\n"}
ab_prefix(r) == Len(r) >= 3 /\ r[1] = "A" /\ r[2] = "&" /\ r[3] = "B"

\* C9 as stated: the choice is one of A-F or KEINE, and it is KEINE with a
\* non-empty reason whenever the response is empty or does not begin with a
\* letter A-F followed by a space, hyphen, newline or end of text.
C9_ParseTotal_AsStated ==
    pc = "parsed" =>
        /\ parsed.choice \in Letters \cup {"KEINE"}
        /\ (~truthy(answer.text) \/ ~well_formed(parse_text)) =>
               (parsed.choice = "KEINE" /\ Len(parsed.reason) > 0)

\* C9 amended: as stated, except for responses that begin with 'A&B',
\* which are parsed as A.
C9_ParseTotal ==
    pc = "parsed" =>
        /\ parsed.choice \in Letters \cup {"KEINE"}
        /\ (~truthy(answer.text) \/ (~well_formed(parse_text) /\ ~ab_prefix(parse_text))) =>
               (parsed.choice = "KEINE" /\ Len(parsed.reason) > 0)

\* C9 witness: a response beginning with a letter A-F followed by another
\* character was parsed as KEINE.
C9_Witness ==
    /\ pc = "parsed" /\ truthy(answer.text)
    /\ Len(parse_text) >= 2 /\ parse_text[1] \in Letters
    /\ ~well_formed(parse_text)
    /\ parsed.choice = "KEINE" /\ Len(parsed.reason) > 0

\* the response names two different letters joined by '&'
names_two(r) ==
    Len(r) >= 3 /\ r[1] \in Letters /\ r[2] = "&" /\ r[3] \in Letters /\ r[1] /= r[3]

\* C10 as stated: a response naming more than one letter is parsed as KEINE.
C10_Ambiguous_AsStated ==
    (pc = "parsed" /\ truthy(answer.text) /\ names_two(parse_text)) =>
        parsed.choice = "KEINE"

\* C10 amended: a response beginning with 'A&B' is parsed as A; a response
\* beginning with any other two letters joined by '&' is parsed as KEINE.
C10_Ambiguous ==
    (pc = "parsed" /\ truthy(answer.text) /\ names_two(parse_text)) =>
        IF ab_prefix(parse_text) THEN parsed.choice = "A" ELSE parsed.choice = "KEINE"

\* C10 witness: a response naming two letters other than 'A&B' was parsed
\* as KEINE.
C10_Witness ==
    /\ pc = "parsed" /\ truthy(answer.text)
    /\ names_two(parse_text) /\ ~ab_prefix(parse_text)
    /\ parsed.choice = "KEINE"

\* the settings the call runs with: the argument if given, else the instance's
claimed_retries ==
    IF client.args.max_retries /= None THEN client.args.max_retries.n
    ELSE client.self.max_retries.n
claimed_abort ==
    IF client.args.abort_on_timeout /= None THEN client.args.abort_on_timeout.b
    ELSE client.self.abort_on_timeout.b
query_over == client.status \in {"returned", "raised"}
\* the outcome of a call in which no attempt returned a text
query_failed_as_configured ==
    /\ client.posts = claimed_retries
    /\ IF claimed_abort
       THEN client.status = "raised" /\ client.exc = "OllamaUnavailableError"
       ELSE client.status = "returned" /\ client.result = None
\* the text of the last response, stripped ('' without a 'response' entry)
returned_its_text ==
    client.status = "returned"
    /\ client.result = IF client.body = None THEN Str(<<>>) ELSE Str(strip(client.body.s))

\* C11 as stated: query makes at most max_retries attempts, stops at the
\* first attempt answered with HTTP 200 and returns its text; when every
\* attempt fails it raises OllamaUnavailableError if abort_on_timeout is
\* true and returns None if it is false, the per-call argument taking
\* precedence over the instance setting.
C11_QueryRetries_AsStated ==
    pc = "client" =>
        /\ client.posts <= claimed_retries
        /\ client.last \in {"ok", "bad_body"} => returned_its_text
        /\ (query_over /\ client.last \notin {"ok", "bad_body"}) => query_failed_as_configured

\* C11 amended: as stated, with an attempt answered with HTTP 200 whose
\* body cannot be decoded counting as a failed attempt.
C11_QueryRetries ==
    pc = "client" =>
        /\ client.posts <= claimed_retries
        /\ client.last = "ok" => returned_its_text
        /\ client.last /= "ok" => client.status /= "returned" \/ client.result = None
        /\ (query_over /\ client.last /= "ok") => query_failed_as_configured

\* C11 witness: a call whose abort_on_timeout argument overrides the
\* instance's soft-fail setting raised after several attempts, the last
\* one answered with HTTP 200 and an undecodable body.
C11_Witness ==
    /\ pc = "client" /\ client.status = "raised"
    /\ client.args.abort_on_timeout = Flag(TRUE)
    /\ client.self.abort_on_timeout = Flag(FALSE)
    /\ client.posts >= 2 /\ client.last = "bad_body"

\* the arbitration client raised OllamaUnavailableError during the call
client_raised == pc = "done" /\ queried /\ answer.raises

\* C12: when the arbitration client raises OllamaUnavailableError during
\* merge_record, that error leaves merge_record: the call raises
\* OllamaUnavailableError, returns no FusionResult, and so reports no
\* rejection for the record.
C12_UnavailablePropagates ==
    client_raised =>
        /\ outcome.status = "raised"
        /\ outcome.exc = "OllamaUnavailableError"
        /\ outcome.result = None

\* C12 witness: a record with an id-based variant was put to the client,
\* which raised.
C12_Witness ==
    /\ client_raised /\ outcome.status = "raised"
    /\ variant_of("dnb_id") /= None
    /\ Len(outcome.prompts) = 1

\* C13: a merge_record call sends at most one prompt to the arbitration
\* client and ends in exactly one outcome, a FusionResult or an exception;
\* after a KEINE answer or a validator rejection it returns a result with
\* no variant selected, having sent exactly one prompt.
C13_SingleQuery ==
    pc = "done" =>
        /\ Len(outcome.prompts) <= 1
        /\ \/ outcome.status = "returned" /\ outcome.result /= None /\ outcome.exc = null
           \/ outcome.status = "raised" /\ outcome.result = None /\ outcome.exc /= null
        /\ ((answered /\ letter = "KEINE") \/ validator_rejected) =>
              /\ returned
              /\ Len(outcome.prompts) = 1
              /\ res.dnb_variant_selected = null

\* C13 witness: with two variants on offer the validator rejected the
\* selected one, and the call ended after its one prompt.
C13_Witness ==
    /\ validator_rejected /\ returned
    /\ Len(outcome.prompts) = 1
    /\ Cardinality({s \in SlotSet : variant_of(s) /= None}) >= 2

\* every field of every variant column of the row is null
all_absent ==
    \A s \in SlotSet : \A f \in FieldSet : ~notna(row[s][f])

\* C14: when all six variants are absent, merge_record returns every field
\* copied from the source and tagged 'vdeh', no variant selected,
\* match_rejected false, no rejection reason, and sends no prompt to the
\* arbitration client.
C14_NoVariants ==
    (pc = "done" /\ all_absent) =>
        /\ returned
        /\ \A f \in FieldSet : res.values[f] = row.vdeh[f] /\ res.sources[f] = "vdeh"
        /\ res.dnb_variant_selected = null
        /\ res.fusion_selected_variant = null
        /\ ~res.dnb_match_rejected
        /\ res.rejection_reason = None
        /\ ~queried

\* C14 witness: a row without any variant was merged by an engine with
\* LoC enabled.
C14_Witness ==
    /\ pc = "done" /\ all_absent /\ returned
    /\ engine.enable_loc
    /\ row.vdeh["title"] /= None

\* the entry merging the record at position k on its own gives, the
\* arbitration client behaving as it did for that record
entry_alone(k) ==
    LET out == merge_record(engine, batch.rows[k], batch.answers[k])
    IN IF out.status = "returned"
       THEN success_entry(batch.driver, k, batch.rows[k], out.result)
       ELSE failure_entry(batch.driver, k, batch.rows[k], out.exc)

C16_UnavailableStopsBatch ==
    pc = "batch" =>
        \A k \in 1..Len(batch.log) :
            batch.log[k].error = "OllamaUnavailableError" =>
                /\ batch.status = "raised"
                /\ batch.exc = "OllamaUnavailableError"
                /\ batch.i = batch.log[k].index
                /\ Len(batch.results) < batch.log[k].index

\* the two records of the validate_dnb_match call and its verdict
v_vdeh == validation.vdeh_data
v_dnb == validation.dnb_data
verdict == validation.out
validated == pc = "validate" /\ validation.done
v_rejected == validated /\ ~verdict.raised /\ ~verdict.valid
\* neither title is None or ''
titles_given == truthy(v_vdeh["title"]) /\ truthy(v_dnb["title"])
\* both years are present and integers
years_numeric ==
    /\ notna(v_vdeh["year"]) /\ notna(v_dnb["year"])
    /\ int_of(v_vdeh["year"]).ok /\ int_of(v_dnb["year"]).ok
years_apart == Abs(int_of(v_vdeh["year"]).n - int_of(v_dnb["year"]).n)
\* both page counts parse
v_n1 == extract_page_number(v_vdeh["pages"])
v_n2 == extract_page_number(v_dnb["pages"])
v_pages_parse == v_n1 /= None /\ v_n2 /= None
\* |n1 - n2| against 20% of (n1 + n2) / 2
pages_over_20pct == 10 * Abs(v_n1.n - v_n2.n) > v_n1.n + v_n2.n
years_far == years_numeric /\ years_apart > 2
pages_far == v_pages_parse /\ pages_over_20pct

titles_present ==
    /\ notna(v_vdeh["title"]) /\ notna(v_dnb["title"])
    /\ truthy(v_vdeh["title"]) /\ truthy(v_dnb["title"])
v_similarity == calculate_title_similarity(v_vdeh["title"], v_dnb["title"])
title_far == titles_present /\ frac_lt(v_similarity, Frac(1, 2))

\* similarity exactly 0.50, years exactly 2 apart, pages exactly 20% apart
at_the_bounds ==
    /\ titles_present /\ frac_eq(v_similarity, Frac(1, 2))
    /\ years_numeric /\ years_apart = 2
    /\ v_pages_parse /\ v_n1.n + v_n2.n > 0
    /\ 10 * Abs(v_n1.n - v_n2.n) = v_n1.n + v_n2.n

\* C18: validate_dnb_match rejects only when the title similarity is below
\* 0.50 with both titles present, or the years are both present, numeric
\* and more than 2 apart, or both page counts parse and differ by more
\* than 20%; so a missing, unparseable or non-numeric field never causes a
\* rejection, and a candidate whose values are exactly at the bounds
\* (similarity 0.50, 2 years, 20%) is accepted.
C18_RejectsOnlyOnEvidence ==
    validated =>
        /\ v_rejected => (title_far \/ years_far \/ pages_far)
        /\ at_the_bounds => (~verdict.raised /\ verdict.valid)

\* C19: validate_dnb_match returns a (valid, reason) pair and raises
\* nothing for every pair of records, a pages value that is an empty
\* string or present on one side only included.
C19_ValidatorTotal ==
    validated => (~verdict.raised /\ verdict.valid \in BOOLEAN)

\* the key of the variant in each column of the row
key_of_slot(s) ==
    CASE s = "dnb_id" -> "dnb_id"
      [] s = "dnb_ta" -> "dnb_title_author"
      [] s = "dnb_ty" -> "dnb_title_year"
      [] s = "loc_id" -> "loc_id"
      [] s = "loc_ta" -> "loc_title_author"
      [] s = "loc_ty" -> "loc_title_year"
\* compare_fields reports f as a confirmation for the selected variant
confirmed_field(f) ==
    f \in DOMAIN compare_fields(row.vdeh, selected_candidate).confirmations

C21_RejectionShape ==
    returned =>
        /\ res.dnb_match_rejected =>
              /\ res.rejection_reason /= None
              /\ \A f \in FieldSet :
                    res.values[f] = row.vdeh[f] /\ res.sources[f] \notin VariantKeys
              /\ res.dnb_variant_selected = null
              /\ res.fusion_selected_variant \in {null, "KEINE"}
        /\ ~res.dnb_match_rejected => res.rejection_reason = None

\* C21 witness: the client answered KEINE for a row with an id-based
\* variant and the result is the recorded rejection.
C21_Witness ==
    /\ answered /\ letter = "KEINE" /\ returned
    /\ res.dnb_match_rejected /\ res.rejection_reason /= None
    /\ variant_of("dnb_id") /= None

\* the prompt sent to the arbitration client
prompt_sent == outcome.prompts[1]
\* the letters whose variant, by the mapping used after parsing, is available
available_letters == {l \in Letters : variant_of(variant_slot(l)) /= None}

\* C22: the arbitration prompt presents exactly the available variants,
\* each under its fixed letter A-F: every available variant is shown, no
\* unavailable slot is offered, also when no LoC variant is available, and
\* the record shown under a letter is the one the letter maps to after
\* parsing.
C22_PromptShowsAvailable ==
    (pc = "done" /\ queried) =>
        /\ DOMAIN prompt_sent.shown = available_letters
        /\ \A l \in DOMAIN prompt_sent.shown :
              prompt_sent.shown[l] = format_record_for_display(variant_of(variant_slot(l)))

\* the six variant keys
SixKeys ==
    {"dnb_id", "dnb_title_author", "dnb_title_year",
     "loc_id", "loc_title_author", "loc_title_year"}
\* a selected-variant attribute of the result names the variant k
names_variant(k) ==
    res.dnb_variant_selected = k \/ res.fusion_selected_variant = k
\* no variant went into the result: none was available or it was rejected
no_variant_used == all_absent \/ res.dnb_match_rejected

\* C23: when a field of a result is tagged with a variant key, the
\* result's selected-variant attribute names that variant by its key, and
\* when no variant was used it is null; on the title-year gate acceptance
\* and on an accepted arbitration choice of a DNB or LoC variant alike.
C23_SelectedVariantNamed ==
    returned =>
        /\ \A f \in FieldSet : res.sources[f] \in SixKeys => names_variant(res.sources[f])
        /\ no_variant_used => res.dnb_variant_selected = null

\* the fields compare_fields looks at that are non-null in the VDEh record
\* and in the variant of slot s
non_null_both(s) ==
    {f \in {"title", "authors", "year", "publisher"} :
        /\ notna(row.vdeh[f])
        /\ variant_of(s) /= None
        /\ notna(variant_of(s)[f])}
compared(s) == compare_fields(row.vdeh, variant_of(s))
partitions_non_null(cmp, s) ==
    /\ DOMAIN cmp.conflicts \cap DOMAIN cmp.confirmations = {}
    /\ DOMAIN cmp.conflicts \cup DOMAIN cmp.confirmations = non_null_both(s)
    /\ \A f \in DOMAIN cmp.confirmations : cmp.confirmations[f] = str(row.vdeh[f])

\* C24: compare_fields returns disjoint conflicts and confirmations whose
\* union is the set of fields among title, authors, year, publisher that
\* are non-null on both sides, so a field null on either side, or any
\* field when the candidate is absent, is in neither; each confirmation
\* stores the source's value.  Checked for the record and each variant
\* column of the row merge_record was given.
C24_ComparePartition ==
    pc = "done" => \A s \in SlotSet : partitions_non_null(compared(s), s)

\* C24 witness: an accepted choice whose comparison has a confirmation
\* written differently in the candidate and leaves out a field null on one
\* side, next to a variant with a conflict and an absent variant.
C24_Witness ==
    /\ ai_accepted
    /\ \E s \in SlotSet : variant_of(s) = None
    /\ \E f \in DOMAIN compared(variant_slot(letter)).confirmations :
          str(row.vdeh[f]) /= str(cand_value(f))
    /\ \E s \in SlotSet : DOMAIN compared(s).conflicts /= {}
    /\ non_null_both(variant_slot(letter)) /= {"title", "authors", "year", "publisher"}
    /\ res.confirmations = [json |-> compared(variant_slot(letter)).confirmations]

\* similarities and thresholds 0.0, 0.1, ..., 1.0
SimGrid == {Frac(k, 10) : k \in 0..10}
\* whether the page strings of the row match (tolerance 10%)
gate_pages_match ==
    calculate_pages_match(row.vdeh["pages"], row.dnb_ty["pages"], tolerance).matches
\* the gate's decision at similarity s for the row's page strings
gate_accepts_at(threshold, s) == ty_accept(threshold, s, gate_pages_match)

\* C25: for the page strings of the row and any fixed threshold, if the
\* title-year gate accepts at a similarity it accepts at every higher one;
\* in particular an accepted row would be accepted at every similarity
\* above its own, and a rejected row rejected at every similarity below.
C25_GateMonotone ==
    (returned /\ ty_path) =>
        /\ \A th \in SimGrid : \A s1 \in SimGrid \cup {gate_similarity} : \A s2 \in SimGrid :
              (frac_le(s1, s2) /\ gate_accepts_at(th, s1)) => gate_accepts_at(th, s2)
        /\ ~res.dnb_match_rejected =>
              \A s2 \in SimGrid :
                  frac_le(gate_similarity, s2) => gate_accepts_at(engine.ty_similarity_threshold, s2)
        /\ res.dnb_match_rejected =>
              \A s1 \in SimGrid :
                  frac_le(s1, gate_similarity) => ~gate_accepts_at(engine.ty_similarity_threshold, s1)

\* C25 witness: a row accepted below the threshold because its pages
\* match, so that the similarities above it cross from the page rescue to
\* the threshold.
C25_Witness ==
    /\ returned /\ ty_path /\ ~res.dnb_match_rejected
    /\ gate_pages_match
    /\ frac_lt(gate_similarity, engine.ty_similarity_threshold)
    /\ frac_ge(gate_similarity, Frac(1, 2))

\* calculate_pages_match on the page strings of the row, both ways round
pages_compared ==
    calculate_pages_match(row.vdeh["pages"], row.dnb_ty["pages"], tolerance)
pages_swapped ==
    calculate_pages_match(row.dnb_ty["pages"], row.vdeh["pages"], tolerance)
\* |n1 - n2| / ((n1 + n2) / 2) <= 0.10
within_tolerance == 20 * Abs(gate_n1.n - gate_n2.n) <= gate_n1.n + gate_n2.n
\* the title-year gate has compared the pages of the row
pages_checked == pc = "done" /\ ty_path

\* C26 as stated: calculate_pages_match returns (False, None) when either
\* side has no parseable page count; otherwise matches is true exactly
\* when |n1 - n2| / ((n1 + n2) / 2) <= 0.10, the bound included; swapping
\* the arguments gives the same result.
C26_PagesMatch_AsStated ==
    pages_checked =>
        /\ ~pages_parse => (~pages_compared.matches /\ pages_compared.diff = None)
        /\ pages_parse => (pages_compared.matches <=> within_tolerance)
        /\ pages_compared = pages_swapped

\* C26 amended: the same for two counts that are not both 0; for 0 and 0
\* the difference is reported as 1.0 and matches is false.
C26_PagesMatch ==
    pages_checked =>
        /\ ~pages_parse => (~pages_compared.matches /\ pages_compared.diff = None)
        /\ (pages_parse /\ gate_n1.n + gate_n2.n > 0) =>
              /\ pages_compared.matches <=> within_tolerance
              /\ frac_eq(pages_compared.diff,
                         Frac(2 * Abs(gate_n1.n - gate_n2.n), gate_n1.n + gate_n2.n))
        /\ (pages_parse /\ gate_n1.n + gate_n2.n = 0) =>
              (~pages_compared.matches /\ frac_eq(pages_compared.diff, Frac(1, 1)))
        /\ pages_compared = pages_swapped

\* C26 witness: two different counts exactly 10% of their average apart
\* were compared and match.
C26_Witness ==
    /\ pages_checked /\ pages_parse
    /\ gate_n1.n /= gate_n2.n
    /\ 20 * Abs(gate_n1.n - gate_n2.n) = gate_n1.n + gate_n2.n
    /\ pages_compared.matches /\ pages_swapped.matches

\* the three patterns of extract_page_number
Patterns == 1..3
\* every number one of the three patterns finds in the page string v
hits(v) == UNION { pattern_numbers(strip(str(v)), p) : p \in Patterns }
\* null or empty input
no_pages(v) == v \in {None, NaN, Str(<<>>)}
\* extract_page_number(v) is the largest hit, None without input or hit
largest_hit(v) ==
    IF no_pages(v) \/ hits(v) = {}
    THEN extract_page_number(v) = None
    ELSE /\ extract_page_number(v) \in { Num(n) : n \in hits(v) }
         /\ \A m \in hits(v) : m <= extract_page_number(v).n

gate_similarity_swapped ==
    calculate_title_similarity(row.dnb_ty["title"], row.vdeh["title"])

\* C28: calculate_title_similarity(a, b) equals
\* calculate_title_similarity(b, a), so the title-year gate reaches the same
\* verdict whichever of the two titles is passed first.
C28_SimilaritySymmetric ==
    (returned /\ ty_path) =>
        /\ frac_eq(gate_similarity, gate_similarity_swapped)
        /\ gate_accepts_at(engine.ty_similarity_threshold, gate_similarity)
             <=> gate_accepts_at(engine.ty_similarity_threshold, gate_similarity_swapped)

\* the smaller of two numbers
Smaller(x, y) == IF x <= y THEN x ELSE y
\* the waits of a query so far, and the attempts that failed so far
slept == client.waits
failed_attempts == client.attempt
\* the query is over without an answer from the service
exhausted == client.status = "raised" \/ (client.status = "returned" /\ client.last /= "ok")

\* C29: in OllamaClient.query the wait after the k-th failed attempt
\* (k = 0, 1, ...) is min(retry_backoff_base_sec * 2^k, 15) seconds, so
\* waits never decrease and never exceed 15 s, and every failed attempt,
\* the last one included, has been followed by its wait before the next
\* attempt and before exhaustion is reported.
C29_BackoffWaits ==
    pc = "client" =>
        /\ Len(slept) = failed_attempts
        /\ \A k \in 0..(Len(slept) - 1) :
              slept[k + 1] = Smaller(client.self.retry_backoff_base_sec * 2 ^ k, 15)
        /\ \A k \in 1..Len(slept) : slept[k] <= 15
        /\ \A k \in 1..(Len(slept) - 1) : slept[k] <= slept[k + 1]
        /\ exhausted => Len(slept) = client.max_retries.n

\* C29 witness: a query was exhausted after at least four failed attempts,
\* its last wait cut to the 15 s cap and slept before exhaustion was
\* reported.
C29_Witness ==
    /\ pc = "client" /\ exhausted
    /\ client.max_retries.n >= 4
    /\ Len(slept) = client.max_retries.n
    /\ client.self.retry_backoff_base_sec * 2 ^ (Len(slept) - 1) > 15
    /\ slept[Len(slept)] = 15
    /\ slept[1] < 15

\* a result or an exception as the entry the loop appends for it
success_or_failure(driver, k, r, out) ==
    IF out.status = "returned"
    THEN success_entry(driver, k, r, out.result)
    ELSE failure_entry(driver, k, r, out.exc)
\* the records at positions j and k are the same and the arbitration
\* client did the same for both
same_call(j, k) == batch.rows[j] = batch.rows[k] /\ batch.answers[j] = batch.answers[k]
\* an entry without its position in the batch
unindexed(e) == IF "index" \in DOMAIN e THEN [e EXCEPT !.index = 0] ELSE e
\* the entry that merging record r at position k gives on its own, the
\* arbitration client doing a
entry_of(eng, driver, k, r, a) ==
    success_or_failure(driver, k, r, merge_record(eng, r, a))
\* the step has merged the record at position batch.i
merged_one == pc = "batch" /\ Len(batch'.results) > Len(batch.results)
\* an earlier record that equals the one just merged, with the same response
same_as_merged(j) ==
    batch.rows[j] = batch.rows[batch.i] /\ batch.answers[j] = batch'.answers[batch.i]

====
